---- MODULE Spec2Model ----
(***************************************************************************)
(* AQI helpers of Indoorapp.py: pm25_to_aqi, aqi_category, health_tip, and *)
(* the dashboard code that chains them.                                    *)
(*                                                                         *)
(* pm25_to_aqi computes in Python floats (IEEE-754 binary64, round to      *)
(* nearest, ties to even).  The arithmetic is modelled bit-exactly: a      *)
(* float is a sign, a 53-bit significand and a binary exponent, and the    *)
(* significand is an arbitrary-precision natural kept as a little-endian   *)
(* sequence of limbs, because the integers of TLC have 32 bits.            *)
(***************************************************************************)
EXTENDS Integers, Sequences, FiniteSets, TLC

(***************************************************************************)
(* Arbitrary-precision naturals: <<l1, l2, ...>> is l1 + l2*Base + ...,    *)
(* every limb in 0..Base-1, no leading zero limb; <<>> is 0.               *)
(***************************************************************************)
Base == 2^15

Limb(a, i) == IF 1 <= i /\ i <= Len(a) THEN a[i] ELSE 0

\* drop the leading zero limbs
BTrim(a) ==
    LET used == {i \in 1..Len(a) : a[i] # 0}
    IN  IF used = {} THEN <<>>
        ELSE SubSeq(a, 1, CHOOSE i \in used : \A k \in used : k <= i)

\* an int 0 <= n < 2^31 as limbs, and back
BFromInt(n) == BTrim(<<n % Base, (n \div Base) % Base, n \div (Base * Base)>>)

BToInt(a) == Limb(a, 1) + Base * Limb(a, 2) + Base * Base * Limb(a, 3)

BMaxLen(a, b) == IF Len(a) >= Len(b) THEN Len(a) ELSE Len(b)

\* the tuple <<f(1), ..., f(n)>>, every element evaluated
Tuple(n, f(_)) == SubSeq([i \in 1..n |-> f(i)], 1, n)

\* the carry into column i of column sums s, each at most 2 * Base - 2: some
\* lower column overflows and every column between it and i passes the carry on
Carry(s, i) ==
    IF \E k \in 1..(i - 1) :
           /\ s[k] >= Base
           /\ \A l \in (k + 1)..(i - 1) : s[l] = Base - 1
    THEN 1 ELSE 0

\* the natural whose column sums are s (the top column takes the last carry)
Normalize(s) == BTrim([i \in 1..Len(s) |-> (s[i] + Carry(s, i)) % Base])

BAdd(a, b) == Normalize(Tuple(BMaxLen(a, b) + 1, LAMBDA i : Limb(a, i) + Limb(b, i)))

\* the borrow from limb i of a - b
SubBorrow(a, b, i) ==
    IF \E k \in 1..(i - 1) :
           /\ Limb(a, k) < Limb(b, k)
           /\ \A l \in (k + 1)..(i - 1) : Limb(a, l) = Limb(b, l)
    THEN 1 ELSE 0

\* a - b for a >= b
BSub(a, b) ==
    BTrim([i \in 1..Len(a) |->
              (Limb(a, i) - Limb(b, i) - SubBorrow(a, b, i) + Base) % Base])

\* -1, 0, 1 as a < b, a = b, a > b
BCmp(a, b) ==
    IF Len(a) < Len(b) THEN -1
    ELSE IF Len(a) > Len(b) THEN 1
    ELSE LET diff == {i \in 1..Len(a) : a[i] # b[i]}
         IN  IF diff = {} THEN 0
             ELSE LET top == CHOOSE i \in diff : \A k \in diff : k <= i
                  IN  IF a[top] < b[top] THEN -1 ELSE 1

\* a * Base^n
BShiftLimbs(a, n) == IF a = <<>> THEN <<>> ELSE Tuple(n + Len(a), LAMBDA i : Limb(a, i - n))

\* a * k for 0 <= k <= Base: column i is the low half of a[i] * k plus the high
\* half of a[i - 1] * k
BMulSmall(a, k) ==
    Normalize(Tuple(Len(a) + 2, LAMBDA i :
                  ((Limb(a, i) * k) % Base) + ((Limb(a, i - 1) * k) \div Base)))

\* a * b for a and b of at most four limbs (53 bits): column k collects the low
\* halves of the limb products a[i] * b[k + 1 - i] and the high halves of the
\* products one column down; a column is below 2^19, and its part above Base is
\* carried one column up
MulColumn(a, b, k) ==
    LET lo(i) == (Limb(a, i) * Limb(b, k + 1 - i)) % Base
        hi(i) == (Limb(a, i) * Limb(b, k - i)) \div Base
    IN  lo(1) + lo(2) + lo(3) + lo(4) + hi(1) + hi(2) + hi(3) + hi(4)

BMul(a, b) ==
    LET cols == Tuple(9, LAMBDA k : MulColumn(a, b, k))
    IN  Normalize(Tuple(10, LAMBDA k : (Limb(cols, k) % Base) + (Limb(cols, k - 1) \div Base)))

\* a * 2^n
BShl(a, n) == BShiftLimbs(BMulSmall(a, 2^(n % 15)), n \div 15)

\* floor(a / 2^n): drop n \div 15 limbs, then move n % 15 bits down across limbs
BShr(a, n) ==
    LET w == n \div 15
        r == n % 15
    IN  BTrim([i \in 1..(Len(a) - w) |->
                  (Limb(a, i + w) \div 2^r) + (Limb(a, i + w + 1) % 2^r) * 2^(15 - r)])

\* number of significant bits of a limb
IntBits(n) == CHOOSE k \in 0..15 : 2^k > n /\ (k = 0 \/ 2^(k - 1) <= n)

\* number of significant bits of a
BBits(a) == IF a = <<>> THEN 0 ELSE 15 * (Len(a) - 1) + IntBits(a[Len(a)])

BOdd(a) == a # <<>> /\ a[1] % 2 = 1

\* bit k of a (bit 0 is the lowest), and whether a bit below bit k is set
BBit(a, k) == (Limb(a, (k \div 15) + 1) \div 2^(k % 15)) % 2

BLowBits(a, k) ==
    \/ \E i \in 1..(k \div 15) : Limb(a, i) # 0
    \/ Limb(a, (k \div 15) + 1) % 2^(k % 15) # 0

\* a / 2^s for s >= 1, rounded to the nearest integer, ties to even
BShrRound(a, s) ==
    LET q  == BShr(a, s)
        up == BBit(a, s - 1) = 1 /\ (BLowBits(a, s - 1) \/ BOdd(q))
    IN  IF up THEN BAdd(q, <<1>>) ELSE q

(***************************************************************************)
(* Evaluation order.  TLC evaluates an operator's arguments on demand,     *)
(* inside the operator that uses them, so a chain of float operations      *)
(* nests as deep as it is long.  Then(x, F) is F(x) with x                 *)
(* evaluated first, as Python evaluates it.                                *)
(***************************************************************************)
Then(x, F(_)) == CHOOSE r \in {F(v) : v \in {x}} : TRUE

Then2(x, y, F(_, _)) == CHOOSE r \in {F(v, w) : v \in {x}, w \in {y}} : TRUE

(***************************************************************************)
(* Python floats.  [neg, m, e] is (-1)^neg * m * 2^e with m = 0 (zero) or  *)
(* 2^52 <= m < 2^53.  Every value pm25_to_aqi computes lies between 2^-60  *)
(* and 2^10, so subnormals, infinities and NaN do not arise and are left   *)
(* out.  Each operation returns the exact result rounded to nearest, ties  *)
(* to even, as IEEE-754 requires of +, -, * and /.                         *)
(***************************************************************************)
FZero == [neg |-> FALSE, m |-> <<>>, e |-> 0]

\* the float nearest to M * 2^E, ties to even (M an arbitrary-precision natural)
FRoundValue(M, E) ==
    LET L == BBits(M)
    IN  IF L = 0 THEN FZero
        ELSE IF L <= 53
        THEN [neg |-> FALSE, m |-> BShl(M, 53 - L), e |-> E - (53 - L)]
        ELSE Then(BShrRound(M, L - 53), LAMBDA q :
                 IF BBits(q) > 53
                 THEN [neg |-> FALSE, m |-> BShr(q, 1), e |-> E + (L - 53) + 1]
                 ELSE [neg |-> FALSE, m |-> q, e |-> E + (L - 53)])

FRound(M, E) == Then(M, LAMBDA v : FRoundValue(v, E))

\* float(n) for an int n: exact, |n| < 2^31
FromInt(n) ==
    IF n < 0 THEN [FRound(BFromInt(-n), 0) EXCEPT !.neg = TRUE]
    ELSE FRound(BFromInt(n), 0)

\* one digit of long division in base Base, for D of four limbs with the top bit
\* of the top limb set and R < Base * D: <<floor(R / D), R - floor(R / D) * D>>.
\* The two leading limbs of R over the leading limb of D overestimate the digit
\* by 0, 1 or 2 (Knuth, TAOCP 4.3.1, Theorem B); the right one is chosen by test.
DivStepValue(R, D) ==
    LET est  == (Limb(R, 5) * Base + Limb(R, 4)) \div D[4]
        qhat == IF est >= Base THEN Base - 1 ELSE est
    IN  Then(CHOOSE k \in {qhat - 2, qhat - 1, qhat} :
                 /\ k >= 0
                 /\ BCmp(BMulSmall(D, k), R) <= 0
                 /\ BCmp(BMulSmall(D, k + 1), R) > 0,
             LAMBDA d : <<d, BSub(R, BMulSmall(D, d))>>)

DivStep(R, D) == Then2(R, D, LAMBDA v, w : DivStepValue(v, w))

\* the quotient of the significands a and b to 60 fraction bits by long division,
\* with a sticky bit below it for what is left
FDivValue(a, b) ==
    Then(BShl(b, 7), LAMBDA D :
        Then(DivStep(BShl(a, 7), D), LAMBDA s0 :
        Then(DivStep(BShiftLimbs(s0[2], 1), D), LAMBDA s1 :
        Then(DivStep(BShiftLimbs(s1[2], 1), D), LAMBDA s2 :
        Then(DivStep(BShiftLimbs(s2[2], 1), D), LAMBDA s3 :
        Then(DivStep(BShiftLimbs(s3[2], 1), D), LAMBDA s4 :
            BAdd(BShl(BTrim(<<s4[1], s3[1], s2[1], s1[1], s0[1]>>), 1),
                 IF s4[2] = <<>> THEN <<>> ELSE <<1>>)))))))

\* a / b, b # 0: the exact quotient, rounded
FDiv(x, y) ==
    Then2(x, y, LAMBDA a, b :
        IF a.m = <<>> THEN FZero
        ELSE [FRound(FDivValue(a.m, b.m), a.e - b.e - 61) EXCEPT !.neg = (a.neg # b.neg)])

\* a * b
FMul(x, y) ==
    Then2(x, y, LAMBDA a, b :
        IF a.m = <<>> \/ b.m = <<>> THEN FZero
        ELSE [FRound(BMul(a.m, b.m), a.e + b.e) EXCEPT !.neg = (a.neg # b.neg)])

FMinExp(a, b) == IF a.e <= b.e THEN a.e ELSE b.e

\* -1, 0, 1 as |a| < |b|, |a| = |b|, |a| > |b|
FCmpMag(a, b) ==
    IF a.m = <<>> THEN (IF b.m = <<>> THEN 0 ELSE -1)
    ELSE IF b.m = <<>> THEN 1
    ELSE IF a.e < b.e THEN -1
    ELSE IF a.e > b.e THEN 1
    ELSE BCmp(a.m, b.m)

\* a + b for a >= 0 and b >= 0 (the only sums pm25_to_aqi forms)
FAdd(x, y) ==
    Then2(x, y, LAMBDA a, b :
        IF a.m = <<>> THEN b
        ELSE IF b.m = <<>> THEN a
        ELSE FRound(BAdd(BShl(a.m, a.e - FMinExp(a, b)), BShl(b.m, b.e - FMinExp(a, b))),
                    FMinExp(a, b)))

\* a - b for a >= b >= 0 (the band test guarantees Clow <= pm, Clow < Chigh)
FSub(x, y) ==
    Then2(x, y, LAMBDA a, b :
        IF b.m = <<>> THEN a
        ELSE FRound(BSub(BShl(a.m, a.e - FMinExp(a, b)), BShl(b.m, b.e - FMinExp(a, b))),
                    FMinExp(a, b)))

\* a <= b
FLeq(x, y) ==
    Then2(x, y, LAMBDA a, b :
        IF a.neg /\ ~b.neg THEN TRUE
        ELSE IF ~a.neg /\ b.neg THEN a.m = <<>> /\ b.m = <<>>
        ELSE IF a.neg THEN FCmpMag(b, a) <= 0
        ELSE FCmpMag(a, b) <= 0)

\* rounding to the nearest integer with ties away from zero, for x >= 0
PyRoundHalfUp(x) ==
    Then(x, LAMBDA a :
        IF a.m = <<>> THEN 0
        ELSE IF a.e >= 0 THEN BToInt(BShl(a.m, a.e))
        ELSE BToInt(BShr(a.m, -a.e)) + BBit(a.m, -a.e - 1))

\* int(round(x)) for x >= 0: Python's round() goes to the nearest integer, ties to even
PyRound(x) ==
    Then(x, LAMBDA a :
        IF a.m = <<>> THEN 0
        ELSE IF a.e >= 0 THEN BToInt(BShl(a.m, a.e))
        ELSE BToInt(BShrRound(a.m, -a.e)))

\* the float a decimal literal or a stored reading denotes: num / 10^k, correctly rounded
FromDecimal(num, scale) == FDiv(FromInt(num), FromInt(scale))

(***************************************************************************)
(* AQI HELPERS                                                             *)
(*                                                                         *)
(* An optional value is None or Some(v), so that None compares with every  *)
(* value.  A concentration is counted in hundredths of a microgram per     *)
(* cubic metre: Some(1205) is the float 12.05.  The breakpoints are        *)
(* written in tenths, as the source's literals have one decimal: 121 is    *)
(* the literal 12.1.                                                       *)
(***************************************************************************)
None == <<>>

Some(v) == <<v>>

Val(o) == o[1]

\* the table with the third band's index starting at 100
bps_third_from_100 ==
    << <<0,    120,  0,   50>>,
       <<121,  354,  51,  100>>,
       <<355,  554,  100, 150>>,
       <<555,  1504, 151, 200>>,
       <<1505, 2504, 201, 300>>,
       <<2505, 3504, 301, 400>>,
       <<3505, 5004, 401, 500>> >>

bps ==
    << <<0,    120,  0,   50>>,
       <<121,  354,  51,  100>>,
       <<355,  554,  101, 150>>,
       <<555,  1504, 151, 200>>,
       <<1505, 2504, 201, 300>>,
       <<2505, 3504, 301, 400>>,
       <<3505, 5004, 401, 500>> >>

\* the float a breakpoint literal denotes
Lit(tenths) == FromDecimal(tenths, 10)

\* the float the band's return statement rounds:
\* ((Ihigh - Ilow)/(Chigh - Clow))*(pm - Clow) + Ilow
Formula(x, Clow, Chigh, Ilow, Ihigh) ==
    FAdd(FMul(FDiv(FromInt(Ihigh - Ilow), FSub(Chigh, Clow)),
              FSub(x, Clow)),
         FromInt(Ilow))

\* the band's return statement: int(round(...))
Interpolate(x, Clow, Chigh, Ilow, Ihigh) ==
    PyRound(Formula(x, Clow, Chigh, Ilow, Ihigh))

\* the band test with a strict lower bound: Clow < pm <= Chigh
InBandStrict(x, Clow, Chigh) == ~FLeq(x, Clow) /\ FLeq(x, Chigh)

\* the band test: Clow <= pm <= Chigh
InBand(x, Clow, Chigh) == FLeq(Clow, x) /\ FLeq(x, Chigh)

\* the floats of the literals of bps, which do not depend on pm
Clows == Tuple(Len(bps), LAMBDA i : Lit(bps[i][1]))

Chighs == Tuple(Len(bps), LAMBDA i : Lit(bps[i][2]))

\* the loop with the last band extended upwards instead of the return after it
RECURSIVE ScanBandsExtrapolate(_, _)
ScanBandsExtrapolate(x, i) ==
    IF i > Len(bps) THEN <<0, 500>>
    ELSE IF InBand(x, Clows[i], Chighs[i]) \/ (i = Len(bps) /\ FLeq(Chighs[i], x))
    THEN <<i, Interpolate(x, Clows[i], Chighs[i], bps[i][3], bps[i][4])>>
    ELSE ScanBandsExtrapolate(x, i + 1)

\* the for loop over bps from band i on, and the return 500 after it:
\* <<the band whose return ran, or 0 for the return after the loop, the value returned>>
RECURSIVE ScanBands(_, _)
ScanBands(x, i) ==
    IF i > Len(bps) THEN <<0, 500>>
    ELSE IF InBand(x, Clows[i], Chighs[i])
    THEN <<i, Interpolate(x, Clows[i], Chighs[i], bps[i][3], bps[i][4])>>
    ELSE ScanBands(x, i + 1)

\* pm25_to_aqi without the None check, None read as 0.0
pm25_to_aqi_none_as_zero(c) ==
    Some(ScanBands(FromDecimal(IF c = None THEN 0 ELSE Val(c), 100), 1)[2])

\* pm25_to_aqi with a negative concentration raised to 0.0
pm25_to_aqi_clamp_negative(c) ==
    IF c = None THEN None
    ELSE Some(ScanBands(FromDecimal(IF Val(c) < 0 THEN 0 ELSE Val(c), 100), 1)[2])

pm25_to_aqi(c) ==
    IF c = None THEN None
    ELSE Some(ScanBands(FromDecimal(Val(c), 100), 1)[2])

\* where pm25_to_aqi(c) returned: None before the loop (line 138), Some(i) in band
\* i of the loop (line 151), Some(0) after the loop (line 152)
ReturnBand(c) ==
    IF c = None THEN None
    ELSE Some(ScanBands(FromDecimal(Val(c), 100), 1)[1])

\* the thresholds read as strict: aqi < 50, aqi < 100, ...
aqi_category_strict(a) ==
    IF a = None THEN <<"Unknown", "#9AA0A6">>
    ELSE IF Val(a) < 50 THEN <<"Good", "#00E400">>
    ELSE IF Val(a) < 100 THEN <<"Moderate", "#FFFF00">>
    ELSE IF Val(a) < 150 THEN <<"Unhealthy for Sensitive Groups", "#FF7E00">>
    ELSE IF Val(a) < 200 THEN <<"Unhealthy", "#FF0000">>
    ELSE IF Val(a) < 300 THEN <<"Very Unhealthy", "#8F3F97">>
    ELSE <<"Hazardous", "#7E0023">>

aqi_category(a) ==
    IF a = None THEN <<"Unknown", "#9AA0A6">>
    ELSE IF Val(a) <= 50 THEN <<"Good", "#00E400">>
    ELSE IF Val(a) <= 100 THEN <<"Moderate", "#FFFF00">>
    ELSE IF Val(a) <= 150 THEN <<"Unhealthy for Sensitive Groups", "#FF7E00">>
    ELSE IF Val(a) <= 200 THEN <<"Unhealthy", "#FF0000">>
    ELSE IF Val(a) <= 300 THEN <<"Very Unhealthy", "#8F3F97">>
    ELSE <<"Hazardous", "#7E0023">>

tips ==
    [c \in {"Good", "Moderate", "Unhealthy for Sensitive Groups", "Unhealthy",
            "Very Unhealthy", "Hazardous"} |->
        CASE c = "Good" -> "Air quality is good. Keep windows open when possible."
          [] c = "Moderate" -> "Sensitive groups should limit outdoor activity."
          [] c = "Unhealthy for Sensitive Groups" -> "Use air purifier and avoid outdoor activity."
          [] c = "Unhealthy" -> "Limit outdoor exposure."
          [] c = "Very Unhealthy" -> "Stay indoors and use air purifier."
          [] c = "Hazardous" -> "Avoid outdoor activities completely."]

\* tips.get(cat) without the default: no text for a category tips lacks
health_tip_no_default(c) ==
    IF c \in DOMAIN tips THEN tips[c] ELSE ""

\* tips.get(cat, "Monitor conditions and stay safe.")
health_tip(c) ==
    IF c \in DOMAIN tips THEN tips[c] ELSE "Monitor conditions and stay safe."

(***************************************************************************)
(* Inputs.  The helpers are pure, so the state is one call in progress:    *)
(* the argument drawn at Init and the values computed from it so far.      *)
(***************************************************************************)
EdgeWindow == 5
GridN == 50
MaxScore == 510
HistBands == 2
MaxRows == 2

\* the concentrations within EdgeWindow hundredths of a breakpoint: both ends of
\* every band, the gap after it, just below 0.0 and just above 500.4
EdgeInputs ==
    UNION {{10 * bps[i][1] + d, 10 * bps[i][2] + d} : i \in 1..Len(bps), d \in -EdgeWindow..EdgeWindow}

\* multiples of 0.12 in the first band: the odd ones are where 50/12 * pm ends in .5
GridInputs == {12 * k : k \in 0..GridN}

\* concentrations across all the bands, 9.97 apart
SweepInputs == {997 * k : k \in 0..GridN}

\* 40.0, 600, -1, and concentrations of the other bands where the formula ends in .5
ExampleInputs == {4000, 60000, -100, 2375, 4545, 10295, 15605, 25605, 42545}

PMInputs ==
    {None} \cup {Some(c) : c \in EdgeInputs \cup GridInputs \cup SweepInputs \cup ExampleInputs}

ScoreInputs == {None} \cup {Some(a) : a \in -MaxScore..MaxScore}

CatInputs ==
    DOMAIN tips \cup {"Unknown", "unrecognized", "good", ""}

\* the pm25 column of a user's readings: MaxRows rows at most, around the first
\* gaps and around 500.4
HistInputs ==
    UNION {{10 * bps[i][2], 10 * bps[i][2] + 5, 10 * bps[i + 1][1]} : i \in 1..HistBands}
        \cup {10 * bps[Len(bps)][2], 10 * bps[Len(bps)][2] + 5}

RECURSIVE SeqsUpTo(_, _)
SeqsUpTo(S, n) ==
    IF n = 0 THEN {<<>>}
    ELSE SeqsUpTo(S, n - 1) \cup {Append(q, x) : q \in SeqsUpTo(S, n - 1), x \in S}

(***************************************************************************)
(* State: call is the entry point: "pipeline" is the chain pm25_to_aqi,    *)
(* aqi_category, health_tip of lines 320, 321 and 337; "aqi_category" and  *)
(* "health_tip" are direct calls of one helper; "history" is the aqi       *)
(* column of lines 342 and 361.  pc is the helper to run next, band is     *)
(* where pm25_to_aqi returned.                                             *)
(***************************************************************************)
VARIABLES call, pc, pm, band, aqi, cat, color, tip, df_pm25, df_aqi

(***************************************************************************)
(* Session: st.session_state (logged_in, user, page, last_aqi) and the two *)
(* tables of the database as far as the pages use them: users is the set   *)
(* of ids in the users table, latest[u] the pm25 of the reading            *)
(* get_latest_reading(u) returns.  A step of the session is one run of the *)
(* script, from its start to its end or to its st.rerun(); the state       *)
(* between two steps is the state at the start of a run.  rendered is the  *)
(* page function the run called with the logged_in and user it saw,        *)
(* emitted is what trigger_browser_alerts did in the run.  called and      *)
(* alert_aqi are history variables: whether trigger_browser_alerts was     *)
(* ever called, and the AQI of the last alert emitted.                     *)
(***************************************************************************)
VARIABLES logged_in, user, page, last_aqi, users, latest, rendered, emitted,
          called, alert_aqi

helper_vars == <<call, pc, pm, band, aqi, cat, color, tip, df_pm25, df_aqi>>

session_vars ==
    <<logged_in, user, page, last_aqi, users, latest, rendered, emitted, called, alert_aqi>>

vars == <<helper_vars, session_vars>>

Unset == "unset"

\* no page function was called: the run ended in st.rerun() before the last line
NoRender == [page |-> "none", logged_in |-> FALSE, user |-> <<>>]

MaxUsers == 2

UserIds == 1..MaxUsers

\* pm25 of the readings a session meets: 12.0, 14.5 and 17.0, one decimal as
\* generate_virtual_reading rounds them; their scores are 50, 56 and 61
ReadingInputs == {1200, 1450, 1700}

\* the session defaults, and what the run before the first one did: nothing
SessionDefaults ==
    /\ logged_in = FALSE /\ user = None /\ page = "home" /\ last_aqi = None
    /\ rendered = NoRender /\ emitted = "none" /\ called = FALSE /\ alert_aqi = None

\* a session that runs no script: the helpers are called on their own
NoSession ==
    /\ SessionDefaults
    /\ users = {} /\ latest = [u \in UserIds |-> None]

InitPipeline ==
    /\ call = "pipeline" /\ pc = "pm25_to_aqi"
    /\ pm \in PMInputs
    /\ aqi = None /\ cat = Unset /\ color = Unset /\ tip = Unset
    /\ band = None /\ df_pm25 = <<>> /\ df_aqi = <<>>
    /\ NoSession

InitCategory ==
    /\ call = "aqi_category" /\ pc = "aqi_category"
    /\ aqi \in ScoreInputs
    /\ pm = None /\ cat = Unset /\ color = Unset /\ tip = Unset
    /\ band = None /\ df_pm25 = <<>> /\ df_aqi = <<>>
    /\ NoSession

InitTip ==
    /\ call = "health_tip" /\ pc = "health_tip"
    /\ cat \in CatInputs
    /\ pm = None /\ aqi = None /\ color = Unset /\ tip = Unset
    /\ band = None /\ df_pm25 = <<>> /\ df_aqi = <<>>
    /\ NoSession

InitHistory ==
    /\ call = "history" /\ pc = "apply"
    /\ df_pm25 \in SeqsUpTo(HistInputs, MaxRows) \ {<<>>}
    /\ df_aqi = <<>> /\ band = None
    /\ pm = None /\ aqi = None /\ cat = Unset /\ color = Unset /\ tip = Unset
    /\ NoSession

Init == InitPipeline \/ InitCategory \/ InitTip \/ InitHistory

\* aqi = pm25_to_aqi(pm25)
ComputeScore ==
    /\ pc = "pm25_to_aqi"
    /\ aqi' = pm25_to_aqi(pm)
    /\ band' = ReturnBand(pm)
    /\ pc' = "aqi_category"
    /\ UNCHANGED <<call, pm, cat, color, tip, df_pm25, df_aqi>>
    /\ UNCHANGED session_vars

\* cat, color = aqi_category(aqi)
Categorize ==
    /\ pc = "aqi_category"
    /\ cat' = aqi_category(aqi)[1]
    /\ color' = aqi_category(aqi)[2]
    /\ pc' = "health_tip"
    /\ UNCHANGED <<call, pm, band, aqi, tip, df_pm25, df_aqi>>
    /\ UNCHANGED session_vars

\* st.info(health_tip(cat))
Advise ==
    /\ pc = "health_tip"
    /\ tip' = health_tip(cat)
    /\ pc' = "done"
    /\ UNCHANGED <<call, pm, band, aqi, cat, color, df_pm25, df_aqi>>
    /\ UNCHANGED session_vars

\* df['aqi'] = df['pm25'].apply(pm25_to_aqi)
ApplyColumn ==
    /\ pc = "apply"
    /\ df_aqi' = [i \in 1..Len(df_pm25) |-> Val(pm25_to_aqi(Some(df_pm25[i])))]
    /\ pc' = "done"
    /\ UNCHANGED <<call, pm, band, aqi, cat, color, tip, df_pm25>>
    /\ UNCHANGED session_vars

Next == ComputeScore \/ Categorize \/ Advise \/ ApplyColumn

Spec == Init /\ [][Next]_vars

(***************************************************************************)
(* The session: runs of the script.  The router (lines 495-532) runs       *)
(* first: logged in, it sets page from the sidebar menu or logs out;       *)
(* logged out, it offers two buttons.  Then PAGES.get(page, page_home) is  *)
(* called.  A run takes one widget event at most.                          *)
(***************************************************************************)
Menu == {"Dashboard", "History", "Recommendations", "Patterns", "Profile", "Settings", "Logout"}

\* the if/elif chain of the router: the page of a menu entry other than Logout
PageOf(selected) ==
    CASE selected = "Dashboard" -> "dashboard"
      [] selected = "History" -> "history"
      [] selected = "Recommendations" -> "recommendations"
      [] selected = "Patterns" -> "patterns"
      [] selected = "Profile" -> "profile"
      [] selected = "Settings" -> "settings"

\* the pages whose function reads st.session_state.user['id']
UserPages == {"dashboard", "history", "recommendations", "patterns", "profile", "settings"}

\* st.session_state.page when the router is through and no rerun was asked for
Routed(selected) == IF logged_in THEN PageOf(selected) ELSE page

Abs(x) == IF x < 0 THEN -x ELSE x

\* the alert rule with last_aqi overwritten only by a call that alerts
trigger_browser_alerts_baseline(last, a) ==
    LET alert == last = None \/ Abs(a - Val(last)) >= 10
    IN  <<alert, IF alert THEN Some(a) ELSE last>>

\* trigger_browser_alerts(aqi, cat) with st.session_state.last_aqi = last:
\* <<whether speak_browser and notify_browser are called, the new last_aqi>>
trigger_browser_alerts(last, a) ==
    <<last = None \/ Abs(a - Val(last)) >= 10, Some(a)>>

\* the three session fields as a record
Session == [logged_in |-> logged_in, user |-> user, page |-> page]

\* the assignments of Logout and of Delete Account
SignedOut == [logged_in |-> FALSE, user |-> None, page |-> "home"]

\* page_login's submit without the test of res
sign_in_unchecked(res, s) == [logged_in |-> TRUE, user |-> res, page |-> "dashboard"]

\* page_login's submit: if res: logged_in, user, page = True, res, "dashboard"
sign_in(res, s) ==
    IF res # None THEN [logged_in |-> TRUE, user |-> res, page |-> "dashboard"] ELSE s

\* the id SQLite gives a new row of users: one more than the largest id
NewId == IF users = {} THEN 1 ELSE 1 + CHOOSE m \in users : \A u \in users : u <= m

\* pm25_to_aqi of every reading, computed once
Scores == [r \in ReadingInputs |-> pm25_to_aqi(Some(r))]

\* the run calls the page function of p
Render(p) == rendered' = [page |-> p, logged_in |-> logged_in, user |-> user]

\* the run does not call trigger_browser_alerts
NoAlertCall == emitted' = "none" /\ UNCHANGED <<last_aqi, called, alert_aqi>>

SessionInit ==
    /\ SessionDefaults
    /\ users \in SUBSET UserIds
    /\ latest \in [UserIds -> {None} \cup {Some(r) : r \in ReadingInputs}]
    /\ call = "session" /\ pc = "done"
    /\ pm = None /\ aqi = None /\ cat = Unset /\ color = Unset /\ tip = Unset
    /\ band = None /\ df_pm25 = <<>> /\ df_aqi = <<>>

\* selected == "Logout": the session is reset and the script reruns
Logout ==
    /\ logged_in
    /\ logged_in' = SignedOut.logged_in /\ user' = SignedOut.user /\ page' = SignedOut.page
    /\ rendered' = NoRender
    /\ NoAlertCall
    /\ UNCHANGED <<users, latest>>
    /\ UNCHANGED helper_vars

\* the sidebar's Login and Sign Up buttons of a logged-out run
SidebarButtons ==
    /\ ~logged_in
    /\ \E p \in {"login", "signup"} : page' = p
    /\ rendered' = NoRender
    /\ NoAlertCall
    /\ UNCHANGED <<logged_in, user, users, latest>>
    /\ UNCHANGED helper_vars

page_home ==
    \E selected \in Menu \ {"Logout"} :
        /\ Routed(selected) = "home"
        /\ Render("home")
        /\ \E button \in {"none", "Login", "Sign Up", "Go to Dashboard"} :
              /\ button \in (IF logged_in THEN {"none", "Go to Dashboard"}
                             ELSE {"none", "Login", "Sign Up"})
              /\ page' = CASE button = "none" -> "home"
                           [] button = "Login" -> "login"
                           [] button = "Sign Up" -> "signup"
                           [] button = "Go to Dashboard" -> "dashboard"
        /\ NoAlertCall
        /\ UNCHANGED <<logged_in, user, users, latest>>
        /\ UNCHANGED helper_vars

\* res is what verify_user returns: None, or the row of a user of the table
page_login ==
    \E selected \in Menu \ {"Logout"} :
        /\ Routed(selected) = "login"
        /\ Render("login")
        /\ \E submitted \in BOOLEAN, res \in {None} \cup {Some(u) : u \in users} :
              LET s == IF submitted THEN sign_in(res, [Session EXCEPT !.page = "login"])
                       ELSE [Session EXCEPT !.page = "login"]
              IN  logged_in' = s.logged_in /\ user' = s.user /\ page' = s.page
        /\ NoAlertCall
        /\ UNCHANGED <<users, latest>>
        /\ UNCHANGED helper_vars

\* ok is what create_user returns; the table holds MaxUsers rows at most
page_signup ==
    \E selected \in Menu \ {"Logout"} :
        /\ Routed(selected) = "signup"
        /\ Render("signup")
        /\ \E created \in BOOLEAN :
              users' = IF created /\ NewId \in UserIds THEN users \cup {NewId} ELSE users
        /\ page' = "signup"
        /\ NoAlertCall
        /\ UNCHANGED <<logged_in, user, latest>>
        /\ UNCHANGED helper_vars

\* lines 319-323 and 337 of page_dashboard for a latest reading of pm25 r
ShowReading(r) ==
    LET a == Scores[Val(r)]
        t == trigger_browser_alerts(last_aqi, Val(a))
    IN  /\ pm' = r
        /\ aqi' = a
        /\ cat' = aqi_category(a)[1]
        /\ color' = aqi_category(a)[2]
        /\ emitted' = IF t[1] THEN "alert" ELSE "quiet"
        /\ last_aqi' = t[2]
        /\ called' = TRUE
        /\ alert_aqi' = IF t[1] THEN a ELSE alert_aqi
        /\ tip' = health_tip(aqi_category(a)[1])
        /\ UNCHANGED <<call, pc, band, df_pm25, df_aqi>>

\* user_id = st.session_state.user['id'] raises for a user of None and the run
\* ends; simulated is the pm25 of the reading Simulate Reading adds, if clicked
page_dashboard ==
    \E selected \in Menu \ {"Logout"} :
        /\ Routed(selected) = "dashboard"
        /\ Render("dashboard")
        /\ page' = "dashboard"
        /\ UNCHANGED <<logged_in, user, users>>
        /\ IF user = None
           THEN NoAlertCall /\ UNCHANGED latest /\ UNCHANGED helper_vars
           ELSE /\ IF latest[Val(user)] = None
                   THEN NoAlertCall /\ UNCHANGED helper_vars
                   ELSE ShowReading(latest[Val(user)])
                /\ \E simulated \in {None} \cup {Some(r) : r \in ReadingInputs} :
                      latest' = IF simulated = None THEN latest
                                ELSE [latest EXCEPT ![Val(user)] = simulated]

\* page_history, page_recommendations, page_patterns and page_profile: they read
\* st.session_state.user['id'] and change nothing of the session
page_readonly ==
    \E selected \in Menu \ {"Logout"} :
        /\ Routed(selected) \in {"history", "recommendations", "patterns", "profile"}
        /\ Render(Routed(selected))
        /\ page' = Routed(selected)
        /\ NoAlertCall
        /\ UNCHANGED <<logged_in, user, users, latest>>
        /\ UNCHANGED helper_vars

\* Clear History deletes the user's readings, Delete Account the user's row and
\* resets the session, without a rerun
page_settings ==
    \E selected \in Menu \ {"Logout"} :
        /\ Routed(selected) = "settings"
        /\ Render("settings")
        /\ NoAlertCall
        /\ UNCHANGED helper_vars
        /\ IF user = None
           THEN page' = "settings" /\ UNCHANGED <<logged_in, user, users, latest>>
           ELSE \E button \in {"none", "Clear History", "Delete Account"} :
                  /\ latest' = IF button = "Clear History"
                               THEN [latest EXCEPT ![Val(user)] = None] ELSE latest
                  /\ users' = IF button = "Delete Account" THEN users \ {Val(user)} ELSE users
                  /\ IF button = "Delete Account"
                     THEN /\ logged_in' = SignedOut.logged_in
                          /\ user' = SignedOut.user
                          /\ page' = SignedOut.page
                     ELSE page' = "settings" /\ UNCHANGED <<logged_in, user>>

SessionNext ==
    \/ Logout
    \/ SidebarButtons
    \/ page_home
    \/ page_login
    \/ page_signup
    \/ page_dashboard
    \/ page_readonly
    \/ page_settings

SessionSpec == SessionInit /\ [][SessionNext]_vars

(***************************************************************************)
(* Properties                                                              *)
(***************************************************************************)
\* the pipeline has computed the score of pm
ScoreDone == call = "pipeline" /\ pc # "pm25_to_aqi"

\* the pipeline has computed the category of the score
CategoryDone == call = "pipeline" /\ pc \in {"health_tip", "done"}

\* the bands whose test Clow <= pm <= Chigh the concentration c passes
BandsContaining(c) ==
    {i \in 1..Len(bps) : InBand(FromDecimal(c, 100), Clows[i], Chighs[i])}

\* C1: boundary exactness: the score of a band's low bound is the band's low index
\* and the score of its high bound is its high index; 0.0 -> 0, 12.0 -> 50,
\* 12.1 -> 51, 500.4 -> 500.
C1_BoundaryExact ==
    (ScoreDone /\ pm # None) =>
        /\ \A i \in 1..Len(bps) :
              /\ Val(pm) = 10 * bps[i][1] => aqi = Some(bps[i][3])
              /\ Val(pm) = 10 * bps[i][2] => aqi = Some(bps[i][4])
        /\ Val(pm) = 0 => aqi = Some(0)
        /\ Val(pm) = 1200 => aqi = Some(50)
        /\ Val(pm) = 1210 => aqi = Some(51)
        /\ Val(pm) = 50040 => aqi = Some(500)

C1_Witness == ScoreDone /\ pm = Some(1210) /\ aqi = Some(51)

\* C2: monotonicity: of two non-negative concentrations of the column, gap values
\* such as 12.05 and values above 500.4 included, the smaller never gets the
\* larger score.
C2_Monotone ==
    (call = "history" /\ pc = "done") =>
        \A i, j \in 1..Len(df_pm25) :
            (0 <= df_pm25[i] /\ df_pm25[i] < df_pm25[j]) => df_aqi[i] <= df_aqi[j]

\* C3: the bands are contiguous and non-overlapping: a concentration from 0.0 to
\* 500.4 lies in exactly one band, and the loop returns inside that band, never
\* after it.
C3_ExactlyOneBand ==
    (ScoreDone /\ pm # None /\ 0 <= Val(pm) /\ Val(pm) <= 50040) =>
        /\ Cardinality(BandsContaining(Val(pm))) = 1
        /\ band # Some(0)
        /\ BandsContaining(Val(pm)) = {Val(band)}

C2_Witness ==
    call = "history" /\ pc = "done" /\ df_pm25 = <<1205, 1210>> /\ df_aqi = <<500, 51>>

C3_Witness == ScoreDone /\ pm = Some(1205) /\ band = Some(0) /\ aqi = Some(500)

\* the first band whose test the concentration c passes
FirstBand(c) ==
    CHOOSE i \in BandsContaining(c) : \A j \in BandsContaining(c) : i <= j

\* the float k / 2, which is exact
Half(k) == FDiv(FromInt(k), FromInt(2))

\* the integer n is the float v rounded to the nearest integer, ties to even:
\* n - 1/2 <= v <= n + 1/2, and n is even when v is one of the two ends
NearestEven(n, v) ==
    /\ FLeq(Half(2 * n - 1), v)
    /\ FLeq(v, Half(2 * n + 1))
    /\ (FLeq(v, Half(2 * n - 1)) \/ FLeq(Half(2 * n + 1), v)) => n % 2 = 0

\* C4: interpolation: the score of a concentration inside a band is returned by the
\* first band that contains it, it is the float
\* ((Ihigh - Ilow)/(Chigh - Clow))*(c - Clow) + Ilow of that band rounded to the
\* nearest integer with ties to even, and it lies between Ilow and Ihigh.
C4_Interpolation ==
    (ScoreDone /\ pm # None /\ BandsContaining(Val(pm)) # {}) =>
        LET i == FirstBand(Val(pm))
        IN  /\ band = Some(i)
            /\ NearestEven(Val(aqi),
                           Formula(FromDecimal(Val(pm), 100), Clows[i], Chighs[i],
                                   bps[i][3], bps[i][4]))
            /\ bps[i][3] <= Val(aqi)
            /\ Val(aqi) <= bps[i][4]

\* 0.6 is in the first band, the float of the formula is 2.5 exactly, the score is 2
C4_Witness ==
    /\ ScoreDone /\ pm = Some(60) /\ band = Some(1) /\ aqi = Some(2)
    /\ Formula(FromDecimal(60, 100), Clows[1], Chighs[1], 0, 50) = Half(5)

\* C5: ceiling clamp: the score of a concentration above 500.4 is exactly 500
\* (600 -> 500), and no score above 500 is returned for any input, in the
\* dashboard's call and in the aqi column alike.
C5_CeilingClamp ==
    /\ (ScoreDone /\ pm # None) =>
          /\ Val(pm) > 10 * bps[Len(bps)][2] => aqi = Some(500)
          /\ Val(aqi) <= 500
    /\ (call = "history" /\ pc = "done") =>
          \A i \in 1..Len(df_aqi) :
              /\ df_pm25[i] > 10 * bps[Len(bps)][2] => df_aqi[i] = 500
              /\ df_aqi[i] <= 500

C5_Witness == ScoreDone /\ pm = Some(60000) /\ aqi = Some(500)

\* aqi_category has returned, called directly or by the pipeline
CategoryReturned ==
    call \in {"pipeline", "aqi_category"} /\ pc \in {"health_tip", "done"}

\* C6: aqi_category is total over the integers and picks one category by ascending
\* thresholds: <= 50 Good, 51..100 Moderate, 101..150 Unhealthy for Sensitive
\* Groups, 151..200 Unhealthy, 201..300 Very Unhealthy, above 300 (above 500
\* too) Hazardous, each with its colour.
C6_Thresholds ==
    (CategoryReturned /\ aqi # None) =>
        LET a == Val(aqi)
        IN  /\ a <= 50 => (cat = "Good" /\ color = "#00E400")
            /\ (51 <= a /\ a <= 100) => (cat = "Moderate" /\ color = "#FFFF00")
            /\ (101 <= a /\ a <= 150) =>
                  (cat = "Unhealthy for Sensitive Groups" /\ color = "#FF7E00")
            /\ (151 <= a /\ a <= 200) => (cat = "Unhealthy" /\ color = "#FF0000")
            /\ (201 <= a /\ a <= 300) => (cat = "Very Unhealthy" /\ color = "#8F3F97")
            /\ a > 300 => (cat = "Hazardous" /\ color = "#7E0023")

C6_Witness ==
    call = "aqi_category" /\ pc = "health_tip" /\ aqi = Some(505) /\ cat = "Hazardous"

\* C7: an absent concentration is a value, not an error: pm25_to_aqi(None) is
\* None, aqi_category(None) is (Unknown, #9AA0A6), and the pipeline on an absent
\* concentration ends with category Unknown and the generic advisory.
C7_AbsentIsAValue ==
    /\ (call = "pipeline" /\ pm = None) =>
          /\ aqi = None
          /\ CategoryDone => (cat = "Unknown" /\ color = "#9AA0A6")
          /\ pc = "done" => tip = "Monitor conditions and stay safe."
    /\ (CategoryReturned /\ aqi = None) => (cat = "Unknown" /\ color = "#9AA0A6")

C7_Witness ==
    /\ call = "pipeline" /\ pc = "done" /\ pm = None /\ aqi = None
    /\ cat = "Unknown" /\ tip = "Monitor conditions and stay safe."

\* C8: end to end, the concentration 40.0 scores 112, not 111, and that score is
\* categorized "Unhealthy for Sensitive Groups" with colour #FF7E00.
C8_FortyScores112 ==
    (call = "pipeline" /\ pm = Some(4000)) =>
        /\ ScoreDone => (aqi = Some(112) /\ aqi # Some(111))
        /\ CategoryDone => (cat = "Unhealthy for Sensitive Groups" /\ color = "#FF7E00")

C8_Witness ==
    /\ CategoryDone /\ pm = Some(4000) /\ aqi = Some(112)
    /\ cat = "Unhealthy for Sensitive Groups" /\ color = "#FF7E00"

\* the six categories health_tip has a sentence for
SixCategories ==
    {"Good", "Moderate", "Unhealthy for Sensitive Groups", "Unhealthy",
     "Very Unhealthy", "Hazardous"}

\* health_tip has returned, called directly or by the pipeline
TipReturned == call \in {"pipeline", "health_tip"} /\ pc = "done"

\* C9: health_tip is total with a fallback: each of the six categories has a
\* sentence of its own (Good: "Air quality is good. Keep windows open when
\* possible."), every other input, "Unknown" included, gets "Monitor conditions
\* and stay safe.", so every category aqi_category returns has an advisory.
C9_TipTotal ==
    /\ TipReturned =>
          /\ cat = "Good" => tip = "Air quality is good. Keep windows open when possible."
          /\ cat \in SixCategories => tip # "Monitor conditions and stay safe."
          /\ cat \notin SixCategories => tip = "Monitor conditions and stay safe."
          /\ tip \notin {Unset, ""}
    /\ \A c, d \in SixCategories : c # d => health_tip(c) # health_tip(d)
    /\ CategoryReturned => health_tip(cat) \notin {Unset, ""}

C9_Witness ==
    /\ call = "health_tip" /\ pc = "done" /\ cat = "unrecognized"
    /\ tip = "Monitor conditions and stay safe."

\* C10: a negative concentration is neither rejected nor raised to 0: no band
\* contains it, the loop falls through to the return of 500, and the pipeline
\* classifies the reading as Hazardous.
C10_NegativeIsHazardous ==
    (ScoreDone /\ pm # None /\ Val(pm) < 0) =>
        /\ BandsContaining(Val(pm)) = {}
        /\ band = Some(0)
        /\ aqi = Some(500)
        /\ CategoryDone => cat = "Hazardous"

C10_Witness ==
    CategoryDone /\ pm = Some(-100) /\ band = Some(0) /\ aqi = Some(500) /\ cat = "Hazardous"

\* C11: the alert rule: a call of trigger_browser_alerts with an integer AQI emits
\* the alerts exactly when last_aqi is None, which is the first call of the
\* session, or when the AQI is 10 or more away from last_aqi; every call, alerting
\* or not, overwrites last_aqi with its AQI, so a sequence of calls each less
\* than 10 from the one before stays silent however far it drifts.
C11_AlertRule ==
    /\ [](called <=> (last_aqi # None))
    /\ [][emitted' # "none" =>
            /\ (emitted' = "alert") <=>
                   (last_aqi = None \/ Abs(Val(aqi') - Val(last_aqi)) >= 10)
            /\ last_aqi' = aqi'
            /\ called']_vars

\* a silent call whose AQI is 10 or more away from the AQI of the last alert
C11_Witness ==
    /\ emitted = "quiet" /\ called
    /\ alert_aqi = Some(50) /\ last_aqi = Some(61) /\ aqi = Some(61)

\* C12: the session invariant: at the start of every run of the script logged_in
\* is True exactly when user is not None, and a page that reads
\* st.session_state.user (dashboard, history, recommendations, patterns, profile,
\* settings) is called only in a run that has logged_in True and a user.
C12_SessionInvariant ==
    /\ logged_in <=> (user # None)
    /\ rendered.page \in UserPages => (rendered.logged_in /\ rendered.user # None)
    /\ ~logged_in => page \in {"home", "login", "signup"}

\* Delete Account: page_settings was called by a logged-in run that ended logged out
C12_Witness ==
    /\ rendered.page = "settings" /\ rendered.logged_in /\ rendered.user # None
    /\ ~logged_in /\ user = None /\ page = "home"

====
